---- MODULE Spec2Model ----
(***************************************************************************)
(* Model of logical/request.go: the Request envelope, its accessors Get    *)
(* and GetString, the derived-request constructors RenewRequest,           *)
(* RevokeRequest and RollbackRequest, and the Operation constants.         *)
(*                                                                         *)
(* Go maps and *Request values are references, so the model keeps a heap   *)
(* of map objects and a heap of Request objects.  A map[string]interface{} *)
(* value is an address into `heap` (NilMap for the nil map) and a *Request *)
(* is an index into `requests`.                                            *)
(***************************************************************************)
EXTENDS Naturals, Sequences, FiniteSets

VARIABLES
    heap,      \* map objects: heap[a] is the contents of the map at address a
    requests,  \* Request objects: requests[i] is the struct behind pointer i
    calls,     \* calls[i]: the constructor call whose return value is pointer i
    ret        \* the call made by the last step and what it returned

vars == <<heap, requests, calls, ret>>

(***************************************************************************)
(* Bounds of the model.                                                    *)
(***************************************************************************)
MaxMaps == 1
MaxRequests == 1
MaxSharedMaps == 1
MaxSharers == 2

(***************************************************************************)
(* Inputs.                                                                 *)
(***************************************************************************)
Keys == {"ttl", "missing"}
Paths == {"", "aws/creds/role1"}

NilMap == 0
NilSecret == "nil"
NilStorage == "nil"
NilValue == [type |-> "nil", val |-> ""]

\* interface{} values a caller stores: a dynamic type and a payload (the
\* payload of an int is written in decimal).
StoredValues == {[type |-> "string", val |-> "1h"], [type |-> "int", val |-> "42"]}
Secrets == {NilSecret, "secretX"}

MapAddrs == 1..Len(heap)
MapRefs == {NilMap} \cup MapAddrs
ReqPtrs == 1..Len(requests)

(***************************************************************************)
(* type Operation string, and its constants.                               *)
(***************************************************************************)
ReadOperation == "read"
WriteOperation == "write"
DeleteOperation == "delete"
ListOperation == "list"
HelpOperation == "help"
RevokeOperation == "revoke"
RenewOperationDup == "revoke"
RenewOperation == "renew"
RollbackOperation == "rollback"

\* The const block, in declaration order.
OperationConsts ==
    << ReadOperation, WriteOperation, DeleteOperation, ListOperation,
       HelpOperation, RevokeOperation, RenewOperation, RollbackOperation >>

Operations == {OperationConsts[i] : i \in 1..Len(OperationConsts)}

(***************************************************************************)
(* Go semantics used by the accessors.                                     *)
(***************************************************************************)
\* m[key] on a non-nil map: the zero value of interface{} for a missing key.
MapIndex(m, key) == IF key \in DOMAIN m THEN m[key] ELSE NilValue

\* s, _ := raw.(string): the payload when the dynamic type is string, the
\* zero string otherwise (the comma-ok form does not panic).
TypeAssertStringAny(raw) == raw.val
TypeAssertString(raw) == IF raw.type = "string" THEN raw.val ELSE ""

(***************************************************************************)
(* func (r *Request) Get(key string) interface{}                           *)
(***************************************************************************)
GetInvertedGuard(r, key) ==
    IF r.Data # NilMap
        THEN NilValue
        ELSE MapIndex(<< >>, key)
Get(r, key) ==
    IF r.Data = NilMap
        THEN NilValue
        ELSE MapIndex(heap[r.Data], key)

(***************************************************************************)
(* func (r *Request) GetString(key string) string                          *)
(***************************************************************************)
GetString(r, key) ==
    LET raw == Get(r, key)
    IN  TypeAssertString(raw)

(***************************************************************************)
(* The constructors: the struct each composite literal builds.  A field    *)
(* the literal does not name has its zero value.                           *)
(***************************************************************************)
RenewRequestNoData(path, secret, data) ==
    [Operation |-> RenewOperation, Path |-> path, Data |-> NilMap,
     Storage |-> NilStorage, Secret |-> secret]
RenewRequest(path, secret, data) ==
    [Operation |-> RenewOperation, Path |-> path, Data |-> data,
     Storage |-> NilStorage, Secret |-> secret]

RevokeRequestAsRollback(path, secret, data) ==
    [Operation |-> RollbackOperation, Path |-> path, Data |-> data,
     Storage |-> NilStorage, Secret |-> secret]
RevokeRequestAsRenew(path, secret, data) ==
    [Operation |-> RenewOperation, Path |-> path, Data |-> data,
     Storage |-> NilStorage, Secret |-> secret]
RevokeRequest(path, secret, data) ==
    [Operation |-> RevokeOperation, Path |-> path, Data |-> data,
     Storage |-> NilStorage, Secret |-> secret]

RollbackRequestNoPath(path) ==
    [Operation |-> RollbackOperation, Path |-> "", Data |-> NilMap,
     Storage |-> NilStorage, Secret |-> NilSecret]
RollbackRequest(path) ==
    [Operation |-> RollbackOperation, Path |-> path, Data |-> NilMap,
     Storage |-> NilStorage, Secret |-> NilSecret]

(***************************************************************************)
(* Steps.                                                                  *)
(***************************************************************************)
\* ret.fn names the call or statement of the last step; req is the *Request
\* it was called on or returned, map the map it wrote, key and val its key
\* and interface{} operand or result, str its string result.
NoRet ==
    [fn |-> "none", req |-> 0, map |-> NilMap, key |-> "", val |-> NilValue,
     str |-> ""]

Returned(fn, r) == [NoRet EXCEPT !.fn = fn, !.req = r]

Init ==
    /\ heap = << >>
    /\ requests = << >>
    /\ calls = << >>
    /\ ret = NoRet

\* A caller makes a new, empty map: map[string]interface{}{}.
MakeMap ==
    /\ heap' = Append(heap, << >>)
    /\ ret' = [NoRet EXCEPT !.fn = "MakeMap", !.map = Len(heap) + 1]
    /\ UNCHANGED <<requests, calls>>

\* A holder of the map at address a executes m[key] = v.
MapAssign(a, key, v) ==
    /\ heap' = [heap EXCEPT ![a] =
                   [k \in DOMAIN heap[a] \cup {key} |->
                       IF k = key THEN v ELSE heap[a][k]]]
    /\ ret' = [NoRet EXCEPT !.fn = "MapAssign", !.map = a, !.key = key, !.val = v]
    /\ UNCHANGED <<requests, calls>>

\* A holder of the map at address a executes delete(m, key).
MapDelete(a, key) ==
    /\ key \in DOMAIN heap[a]
    /\ heap' = [heap EXCEPT ![a] = [k \in DOMAIN heap[a] \ {key} |-> heap[a][k]]]
    /\ ret' = [NoRet EXCEPT !.fn = "MapDelete", !.map = a, !.key = key]
    /\ UNCHANGED <<requests, calls>>

\* A call RenewRequest(path, secret, data): &Request{...} allocates the struct
\* and the call returns the pointer to it (pointer 0 is the nil *Request).
RenewRequestCallChecked(path, secret, data) ==
    IF secret = NilSecret
        THEN /\ ret' = Returned("RenewRequest", 0)
             /\ UNCHANGED <<heap, requests, calls>>
        ELSE /\ requests' = Append(requests, RenewRequest(path, secret, data))
             /\ calls' = Append(calls, [fn |-> "RenewRequest", path |-> path,
                                        secret |-> secret, data |-> data])
             /\ ret' = Returned("RenewRequest", Len(requests) + 1)
             /\ UNCHANGED heap
RenewRequestCallCopy(path, secret, data) ==
    /\ IF data # NilMap
          THEN /\ heap' = Append(heap, heap[data])
               /\ requests' = Append(requests,
                                  RenewRequest(path, secret, Len(heap) + 1))
          ELSE /\ heap' = heap
               /\ requests' = Append(requests, RenewRequest(path, secret, data))
    /\ calls' = Append(calls, [fn |-> "RenewRequest", path |-> path,
                               secret |-> secret, data |-> data])
    /\ ret' = Returned("RenewRequest", Len(requests) + 1)
RenewRequestCall(path, secret, data) ==
    /\ requests' = Append(requests, RenewRequest(path, secret, data))
    /\ calls' = Append(calls, [fn |-> "RenewRequest", path |-> path,
                               secret |-> secret, data |-> data])
    /\ ret' = Returned("RenewRequest", Len(requests) + 1)
    /\ UNCHANGED heap

\* A call RevokeRequest(path, secret, data).
RevokeRequestCall(path, secret, data) ==
    /\ requests' = Append(requests, RevokeRequest(path, secret, data))
    /\ calls' = Append(calls, [fn |-> "RevokeRequest", path |-> path,
                               secret |-> secret, data |-> data])
    /\ ret' = Returned("RevokeRequest", Len(requests) + 1)
    /\ UNCHANGED heap

\* A call RollbackRequest(path).
RollbackRequestCall(path) ==
    /\ requests' = Append(requests, RollbackRequest(path))
    /\ calls' = Append(calls, [fn |-> "RollbackRequest", path |-> path,
                               secret |-> NilSecret, data |-> NilMap])
    /\ ret' = Returned("RollbackRequest", Len(requests) + 1)
    /\ UNCHANGED heap

\* A call r.Get(key) on the Request behind pointer r.
GetCallInserting(r, key) ==
    /\ ret' = [NoRet EXCEPT !.fn = "Get", !.req = r, !.key = key,
                            !.val = Get(requests[r], key)]
    /\ heap' = IF requests[r].Data = NilMap \/ key \in DOMAIN heap[requests[r].Data]
                  THEN heap
                  ELSE [heap EXCEPT ![requests[r].Data] =
                           [k \in DOMAIN @ \cup {key} |->
                               IF k = key THEN NilValue ELSE @[k]]]
    /\ UNCHANGED <<requests, calls>>
GetCall(r, key) ==
    /\ ret' = [NoRet EXCEPT !.fn = "Get", !.req = r, !.key = key,
                            !.val = Get(requests[r], key)]
    /\ UNCHANGED <<heap, requests, calls>>

\* A call r.GetString(key) on the Request behind pointer r.
GetStringCall(r, key) ==
    /\ ret' = [NoRet EXCEPT !.fn = "GetString", !.req = r, !.key = key,
                            !.str = GetString(requests[r], key)]
    /\ UNCHANGED <<heap, requests, calls>>

Next ==
    \/ Len(heap) < MaxMaps /\ MakeMap
    \/ \E a \in MapAddrs, key \in Keys, v \in StoredValues : MapAssign(a, key, v)
    \/ \E a \in MapAddrs, key \in Keys : MapDelete(a, key)
    \/ /\ Len(requests) < MaxRequests
       /\ \E path \in Paths, secret \in Secrets, data \in MapRefs :
              RenewRequestCall(path, secret, data)
    \/ /\ Len(requests) < MaxRequests
       /\ \E path \in Paths, secret \in Secrets, data \in MapRefs :
              RevokeRequestCall(path, secret, data)
    \/ /\ Len(requests) < MaxRequests
       /\ \E path \in Paths : RollbackRequestCall(path)
    \/ \E r \in ReqPtrs, key \in Keys : GetCall(r, key)
    \/ \E r \in ReqPtrs, key \in Keys : GetStringCall(r, key)

Spec == Init /\ [][Next]_vars

(***************************************************************************)
(* The lease subsystem of the overview: it renews and revokes one secret   *)
(* under one path, and the requests it builds may share a data map.        *)
(***************************************************************************)
LeasePath == "aws/creds/role1"
LeaseSecret == "secretX"

NextShare ==
    \/ Len(heap) < MaxSharedMaps /\ MakeMap
    \/ \E a \in MapAddrs, key \in Keys, v \in StoredValues : MapAssign(a, key, v)
    \/ \E a \in MapAddrs, key \in Keys : MapDelete(a, key)
    \/ /\ Len(requests) < MaxSharers
       /\ \E data \in MapRefs : RenewRequestCall(LeasePath, LeaseSecret, data)
    \/ /\ Len(requests) < MaxSharers
       /\ \E data \in MapRefs : RevokeRequestCall(LeasePath, LeaseSecret, data)
    \/ \E r \in ReqPtrs, key \in Keys : GetCall(r, key)
    \/ \E r \in ReqPtrs, key \in Keys : GetStringCall(r, key)

SpecShare == Init /\ [][NextShare]_vars

TypeOK ==
    /\ Len(calls) = Len(requests)
    /\ \A i \in ReqPtrs : requests[i].Data \in MapRefs

(***************************************************************************)
(* Properties.                                                             *)
(***************************************************************************)
Constructors == {"RenewRequest", "RevokeRequest", "RollbackRequest"}

\* C1 (as stated): for every Request built by a constructor, Secret is
\* non-nil if and only if Operation is renew or revoke.
C1_SecretIffRenewOrRevoke ==
    \A i \in ReqPtrs :
        (requests[i].Secret # NilSecret)
            <=> (requests[i].Operation \in {"renew", "revoke"})

\* C1 (amended): for every Request built by a constructor, Secret is non-nil
\* only if Operation is renew or revoke; a renew or revoke request carries
\* exactly the secret argument, so its Secret is non-nil if and only if the
\* caller passed a non-nil secret, and a rollback request has a nil Secret.
C1_SecretOnlyForRenewOrRevoke ==
    \A i \in ReqPtrs :
        /\ requests[i].Secret # NilSecret
               => requests[i].Operation \in {"renew", "revoke"}
        /\ requests[i].Operation \in {"renew", "revoke"}
               => requests[i].Secret = calls[i].secret
        /\ requests[i].Operation \notin {"renew", "revoke"}
               => requests[i].Secret = NilSecret

C1_Witness ==
    \E i \in ReqPtrs :
        /\ calls[i].fn = "RevokeRequest"
        /\ calls[i].secret # NilSecret
        /\ requests[i].Secret # NilSecret

\* C2: RenewRequest(p, s, d) returns a Request with Operation == renew,
\* Path == p, Secret == s, Data == d (the same map, nil included) and Storage
\* unset.
C2_RenewRequestShape ==
    \A i \in ReqPtrs :
        calls[i].fn = "RenewRequest"
            => /\ requests[i].Operation = "renew"
               /\ requests[i].Path = calls[i].path
               /\ requests[i].Secret = calls[i].secret
               /\ requests[i].Data = calls[i].data
               /\ requests[i].Storage = NilStorage

C2_Witness ==
    \E i \in ReqPtrs :
        /\ calls[i].fn = "RenewRequest"
        /\ ret.fn = "RenewRequest" /\ ret.req = i
        /\ calls[i].path # ""
        /\ calls[i].secret # NilSecret
        /\ calls[i].data # NilMap

\* C3: RevokeRequest(p, s, d) returns a Request with Operation == revoke,
\* Path == p, Secret == s, Data == d and Storage unset: the Request that
\* RenewRequest(p, s, d) builds, except for the Operation.
C3_RevokeRequestShape ==
    \A i \in ReqPtrs :
        calls[i].fn = "RevokeRequest"
            => /\ requests[i].Operation = "revoke"
               /\ requests[i].Path = calls[i].path
               /\ requests[i].Secret = calls[i].secret
               /\ requests[i].Data = calls[i].data
               /\ requests[i].Storage = NilStorage
               /\ requests[i] =
                      [RenewRequest(calls[i].path, calls[i].secret, calls[i].data)
                          EXCEPT !.Operation = "revoke"]

C3_Witness ==
    \E i \in ReqPtrs :
        /\ calls[i].fn = "RevokeRequest"
        /\ ret.fn = "RevokeRequest" /\ ret.req = i
        /\ calls[i].path # ""
        /\ calls[i].secret # NilSecret
        /\ calls[i].data # NilMap

Stored(data, key) ==
    IF data # NilMap /\ key \in DOMAIN heap[data]
        THEN heap[data][key]
        ELSE NilValue

\* C5: Get(key) never fails, on any Request and key: it returns the value
\* stored under key when Data is set and has the key, and nil when Data is
\* nil or the key is missing.
C5_GetReturnsStoredOrNil ==
    /\ \A r \in ReqPtrs, key \in Keys : ENABLED GetCall(r, key)
    /\ ret.fn = "Get" => ret.val = Stored(requests[ret.req].Data, ret.key)

C5_Witness ==
    /\ ret.fn = "Get"
    /\ requests[ret.req].Data # NilMap
    /\ ret.key \in DOMAIN heap[requests[ret.req].Data]
    /\ ret.val \in StoredValues

\* C6: GetString(key) never fails, on any Request and key: it returns the
\* stored text when the value under key is text-typed, and "" in every other
\* case (a value of another type, a missing key, a nil Data).
C6_GetStringTextOrEmpty ==
    /\ \A r \in ReqPtrs, key \in Keys : ENABLED GetStringCall(r, key)
    /\ ret.fn = "GetString"
           => LET v == Stored(requests[ret.req].Data, ret.key)
              IN  ret.str = IF v.type = "string" THEN v.val ELSE ""

C6_Witness ==
    /\ ret.fn = "GetString"
    /\ Stored(requests[ret.req].Data, ret.key).type = "int"
    /\ ret.str = ""

\* C7 (as stated): the Operation values are pairwise distinct across the
\* nine defined variants, and a Request carries no other value: the
\* Operation of every Request is one of nine pairwise distinct values.
C7_NineDistinctOperations ==
    \A r \in ReqPtrs :
        /\ requests[r].Operation \in Operations
        /\ Len(OperationConsts) = 9
        /\ Cardinality(Operations) = 9

\* C7 (amended): the Operation values are pairwise distinct across the eight
\* defined variants (read, write, delete, list, help, revoke, renew,
\* rollback), and every Request built by a constructor carries one of them.
C7_EightDistinctOperations ==
    /\ Len(OperationConsts) = 8
    /\ \A i, j \in 1..Len(OperationConsts) :
           i # j => OperationConsts[i] # OperationConsts[j]
    /\ \A i \in ReqPtrs : requests[i].Operation \in Operations

C7_Witness ==
    \E i \in ReqPtrs :
        /\ calls[i].fn = "RenewRequest"
        /\ requests[i].Operation \in Operations
        /\ requests[i].Operation # RevokeOperation

\* C8: the constructors never fail and validate nothing: every combination
\* of arguments, a nil secret and a nil data map included, returns a
\* Request, and a nil secret yields a Request whose Secret is nil.
C8_ConstructorsNeverFail ==
    /\ ret.fn \in Constructors
           => /\ ret.req \in ReqPtrs
              /\ ret.req = Len(requests)
              /\ calls[ret.req].fn = ret.fn
    /\ \A i \in ReqPtrs :
           calls[i].secret = NilSecret => requests[i].Secret = NilSecret

C8_Witness ==
    \E i \in ReqPtrs :
        /\ calls[i].fn = "RenewRequest"
        /\ ret.fn = "RenewRequest" /\ ret.req = i
        /\ calls[i].secret = NilSecret
        /\ calls[i].data = NilMap
        /\ requests[i].Secret = NilSecret

\* C9: a Get or GetString call changes nothing: the Operation, Path, Data,
\* Storage and Secret of every Request and the contents of every map are
\* the same after the call as before it (a nil Data stays nil, a missing
\* key is not inserted).
C9_AccessorsArePure ==
    [][ret'.fn \in {"Get", "GetString"}
          => /\ requests' = requests
             /\ heap' = heap]_vars

C9_Witness ==
    /\ ret.fn = "Get"
    /\ requests[ret.req].Data # NilMap
    /\ ret.key \notin DOMAIN heap[requests[ret.req].Data]
    /\ DOMAIN heap[requests[ret.req].Data] # {}

\* C10: RenewRequest and RevokeRequest keep the caller's map d, not a copy:
\* whatever the caller assigns or deletes in d afterwards, Get and GetString
\* on the request read the current contents of d, and two requests built
\* from the same d read the same Data.
C10_DataIsShared ==
    /\ \A i \in ReqPtrs :
           calls[i].data # NilMap
               => \A key \in Keys :
                      /\ Get(requests[i], key) = MapIndex(heap[calls[i].data], key)
                      /\ GetString(requests[i], key)
                             = TypeAssertString(MapIndex(heap[calls[i].data], key))
    /\ \A i \in ReqPtrs :
           /\ ret.fn = "MapAssign" /\ calls[i].data = ret.map
                  => Get(requests[i], ret.key) = ret.val
           /\ ret.fn = "MapDelete" /\ calls[i].data = ret.map
                  => Get(requests[i], ret.key) = NilValue
    /\ \A i, j \in ReqPtrs :
           calls[i].data = calls[j].data
               => \A key \in Keys :
                      Get(requests[i], key) = Get(requests[j], key)

C10_Witness ==
    /\ ret.fn = "MapAssign"
    /\ \E i, j \in ReqPtrs :
           /\ i # j
           /\ calls[i].fn = "RenewRequest"
           /\ calls[j].fn = "RevokeRequest"
           /\ calls[i].data = ret.map
           /\ calls[j].data = ret.map
           /\ Get(requests[i], ret.key) = ret.val
           /\ Get(requests[j], ret.key) = ret.val
====
